---------------------------- MODULE Spec2Model ----------------------------
(***************************************************************************)
(* The Note execution engine of Netention (src/src/index.ts): the Note     *)
(* store, the change-event emitter, the p-limit scheduler, runNote with    *)
(* its retry loop, and the tools a Note's logic can invoke.                *)
(*                                                                         *)
(* JavaScript runs one segment of code at a time; every `await` is a       *)
(* suspension point.  One action of this module is one such segment: it    *)
(* resumes a suspended async call and runs it to its next await, including *)
(* the synchronous body of the call being awaited (kv.set and emit of      *)
(* saveNote, kv.get of loadNote).  Which suspended call resumes next is    *)
(* left open.                                                              *)
(*                                                                         *)
(* KeyValueMemory stores and returns object references, so Notes, their    *)
(* `state` objects and their `content` objects live in three heaps and are *)
(* named by index; a mutation through one reference is seen through all.   *)
(***************************************************************************)
EXTENDS Integers, Sequences, FiniteSets, TLC

\* ------------------------------------------------------------- bounds
\* Concurrency ceiling of the limiter.  index.ts:69 sets pLimit(10); the
\* model explores a scaled-down ceiling.
K == 2
\* Date.now() takes the values 1..MaxClock.
MaxClock == 3
\* Note objects ever allocated (seed included).
MaxNotes == 12

\* ---------------------------------------------------- program constants
MAX_RETRIES == 3
BASE_DELAY == 1000

VARIABLES
    kv,         \* KeyValueMemory.kv: id -> reference of the stored Note object
    notes,      \* heap of Note objects
    states,     \* heap of `state` objects
    contents,   \* heap of `content` objects
    listening,  \* emitter.on("update", handleEvent) has been executed
    queue,      \* p-limit: submitted runs that have not started
    threads,    \* call stacks: 0 main, 1..K+1 limiter runs, K+2 external caller
    now,        \* last value read from Date.now()
    inputOpen,  \* UIInputTool has registered its readline handler
    seedName,   \* which seed the program was started with
    plan,       \* the external requests still to come, in order
    pausedGate, \* history: ids whose limiter run stopped at the gate because of the pause
    fin,        \* history: the last runNote invocation that ended
    lastSaved   \* history: id passed to saveNote by the last step (or NoId)

vars == <<kv, notes, states, contents, listening, queue, threads, now,
          inputOpen, seedName, plan, pausedGate, fin, lastSaved>>

\* ----------------------------------------------------------------- ids
NoId == <<>>
RootId == <<"root">>
StatusId == <<"ui-status">>

MainT == 0
\* The limiter's runs live in slots 1..K+1: one more than the ceiling, so
\* that the ceiling is kept by the limiter's test and not by the slots.
TaskSlots == 1..(K + 1)
ExtT == K + 2
Threads == 0..(K + 2)

\* --------------------------------------------------------------- values
Statuses == {"pending", "running", "done", "failed"}

NoLogic == [type |-> "", steps |-> <<>>]
Sequential(steps) == [type |-> "sequential", steps |-> steps]
Step(tool, c, command, desc) ==
    [tool |-> tool, content |-> c, command |-> command, desc |-> desc]

\* A content object.  "", NoId, 0, <<>>, NoLogic and "undef" stand for an
\* absent property.
Content(type, id, name, desc, st, ctx, logic, inner) ==
    [type |-> type, id |-> id, name |-> name, desc |-> desc, state |-> st,
     context |-> ctx, logic |-> logic, content |-> inner, paused |-> "undef"]

\* A Note object (seed.ts Note type).  `content` is a reference into
\* `contents`, or 0 when the content is the plain string `text`.
Note(id, c, text, st, ctx, logic) ==
    [id |-> id, content |-> c, text |-> text, state |-> st, graph |-> <<>>,
     memory |-> <<>>, context |-> ctx, logic |-> logic]

\* The tools runNote instantiates.
ToolNames == {"know", "ui_render", "ui_input", "ui_control"}

\* What a tool's _call returns: status, content (nothing, a Note object or
\* a content object) and memory ("" when absent).
Result(status, ckind, cref, memory) ==
    [status |-> status, ckind |-> ckind, cref |-> cref, memory |-> memory]

\* --------------------------------------------------------------- seeds
\* root.logic of the seed the program starts with.
\*   three: three spawn steps creating plain children without explicit ids
\*   fail:  a step naming the tool "spawn", which index.ts does not register
\*          (the first step of src/src/seed.ts)
\*   ui:    the UI children of the seed (input prompt, activity tree)
\*   status: the Execution Status child of the seed, whose step calls the
\*          control tool
\*   mixed: a spawn of a pending child with a step, then a step naming the
\*          unregistered tool "spawn", then one more spawn
\*   log:   a UI child whose two steps render the tree and the log
\*   child: a spawn of the task f, whose step names the unregistered tool
\*          "spawn"
\*   orphan: a spawn of the task o, whose parent zz is not in the store
\*   respawn: a spawn of the task a, whose step spawns b, then a second
\*          spawn under the id a
SeedLogic(s) ==
    CASE s = "three" -> Sequential(<<Step("know", 2, "", ""), Step("know", 3, "", ""),
                                     Step("know", 4, "", "")>>)
      [] s = "fail" -> Sequential(<<Step("spawn", 2, "", "")>>)
      [] s = "status" -> Sequential(<<Step("know", 13, "", "")>>)
      [] s = "mixed" -> Sequential(<<Step("know", 15, "", ""), Step("spawn", 2, "", ""),
                                     Step("know", 3, "", "")>>)
      [] s = "log" -> Sequential(<<Step("know", 16, "", "")>>)
      [] s = "child" -> Sequential(<<Step("know", 18, "", "")>>)
      [] s = "orphan" -> Sequential(<<Step("know", 12, "", "")>>)
      [] s = "respawn" -> Sequential(<<Step("know", 8, "", ""), Step("know", 17, "", "")>>)
      [] OTHER -> Sequential(<<Step("know", 5, "", ""), Step("know", 6, "", "")>>)

seed(s) == Note(RootId, 1, "", 1, <<>>, SeedLogic(s))

\* Object literals of the seed (1..6) and of the external spawn requests
\* (7: a plain task, 8: a task that spawns the pending child 9, 10: a Note
\* named after the spawn tool itself, 11: a task whose step pauses the
\* system, 12: a task whose parent is not in the store), and of the
\* Execution Status child (13, with its nested content 14), of a pending
\* task with a step (15), of a UI child with two render steps (16) and of
\* a second request for the id a (17) and of a task whose step fails (18).
InitContents ==
    << Content("system", NoId, "", "Netention", 0, <<>>, NoLogic, 0),
       Content("tool", NoId, "", "", 0, <<>>, NoLogic, 0),
       Content("tool", NoId, "", "", 0, <<>>, NoLogic, 0),
       Content("tool", NoId, "", "", 0, <<>>, NoLogic, 0),
       Content("UI", <<"ui-prompt">>, "", "Input Prompt", 2, <<>>,
               Sequential(<<Step("ui_input", 0, "", "")>>), 0),
       Content("UI", <<"ui-tree">>, "", "Activity Tree", 3, <<>>,
               Sequential(<<Step("ui_render", 0, "", "Render tree")>>), 0),
       Content("task", <<"p">>, "", "Plan day", 0, <<>>, NoLogic, 0),
       Content("task", <<"a">>, "", "", 0, <<>>,
               Sequential(<<Step("know", 9, "", "")>>), 0),
       Content("task", <<"b">>, "", "", 4, << <<"a">> >>, NoLogic, 0),
       Content("tool", <<"k">>, "know", "Create Note", 0, <<>>, NoLogic, 0),
       Content("task", <<"c">>, "", "Pause", 0, <<>>,
               Sequential(<<Step("ui_control", 0, "pause", "")>>), 0),
       Content("task", <<"o">>, "", "Orphan", 0, << <<"zz">> >>, NoLogic, 0),
       Content("UI", StatusId, "", "Execution Status", 5, <<>>,
               Sequential(<<Step("ui_control", 0, "", "Update status")>>), 14),
       [Content("", NoId, "", "", 0, <<>>, NoLogic, 0) EXCEPT !.paused = "false"],
       Content("task", <<"q">>, "", "Later", 6, <<>>,
               Sequential(<<Step("ui_render", 0, "", "Render tree")>>), 0),
       Content("UI", <<"ui-dash">>, "", "Dashboard", 0, <<>>,
               Sequential(<<Step("ui_render", 0, "", "Render tree"),
                            Step("ui_render", 0, "", "Render log")>>), 0),
       Content("task", <<"a">>, "", "Again", 0, <<>>, NoLogic, 0),
       Content("task", <<"f">>, "", "Failing", 0, <<>>,
               Sequential(<<Step("spawn", 2, "", "")>>), 0) >>

InitStates ==
    << [status |-> "running"], [status |-> "running"], [status |-> "running"],
       [status |-> "pending"], [status |-> "running"], [status |-> "pending"] >>

\* An external request: a call of the spawn capability with content object
\* c, a call of the control capability with a command, or a typed line.
Req(op, c, word) == [op |-> op, c |-> c, word |-> word]

\* K+5 lines typed in a row.
Burst == [i \in 1..(K + 5) |-> Req("line", 0, "know")]

\* The runs explored: a seed and the external requests that follow the
\* bootstrap, in the order in which they arrive.
Scenarios ==
    { [seed |-> "three", plan |-> <<>>],
      [seed |-> "status", plan |-> <<>>],
      [seed |-> "mixed", plan |-> <<>>],
      [seed |-> "log", plan |-> <<>>],
      [seed |-> "respawn", plan |-> <<>>],
      [seed |-> "orphan", plan |-> <<>>],
      [seed |-> "child", plan |-> <<>>],
      [seed |-> "fail", plan |-> <<>>],
      [seed |-> "ui", plan |-> Burst],
      [seed |-> "ui", plan |-> <<Req("line", 0, "pause")>>],
      [seed |-> "ui", plan |-> <<Req("control", 0, "pause"), Req("spawn", 7, ""),
                                 Req("control", 0, "resume"), Req("spawn", 7, "")>>],
      [seed |-> "ui", plan |-> <<Req("spawn", 8, "")>>],
      [seed |-> "ui", plan |-> <<Req("spawn", 10, "")>>],
      [seed |-> "ui", plan |-> <<Req("spawn", 11, "")>>],
      [seed |-> "ui", plan |-> <<Req("control", 0, "pause"), Req("spawn", 6, "")>>],
      [seed |-> "ui", plan |-> <<Req("spawn", 12, "")>>],
      [seed |-> "ui", plan |-> <<Req("spawn", 10, ""), Req("control", 0, "pause")>>] }

\* ------------------------------------------------------------ the store
Paused(ref) ==
    /\ ref # 0
    /\ notes[ref].content # 0
    /\ contents[notes[ref].content].paused = "true"

\* handleEvent: a "change" event submits one run of the id to the limiter.
\* (HandleEventDrop: a limiter that drops what is submitted while all its
\* slots are taken.)
HandleEventDrop(q, id) ==
    IF Cardinality({t \in TaskSlots : threads[t] # <<>>}) >= K THEN q ELSE Append(q, id)

HandleEvent(q, id) == Append(q, id)

\* emitter.emit("update", "change", id): delivered to the listeners
\* registered so far.
Emit(q, id) == IF listening THEN HandleEvent(q, id) ELSE q

\* KeyValueMemory.saveNote(n): kv.set(n.id, n), then emit.
\* (SaveNoteSilent: the write without the emit.  SaveNoteReplace: a write
\* that drops the other entries.)
SaveNoteReplace(id, ref) ==
    /\ kv' = (id :> ref)
    /\ queue' = Emit(queue, id)
    /\ lastSaved' = id

SaveNoteSilent(id, ref) ==
    /\ kv' = (id :> ref) @@ kv
    /\ queue' = queue
    /\ lastSaved' = id

SaveNote(id, ref) ==
    /\ kv' = (id :> ref) @@ kv
    /\ queue' = Emit(queue, id)
    /\ lastSaved' = id

\* A step that calls saveNote nowhere.
NoSave == kv' = kv /\ queue' = queue /\ lastSaved' = NoId

\* KeyValueMemory.loadNote(id): the stored reference, 0 when it throws.
LoadNote(id) == IF id \in DOMAIN kv THEN kv[id] ELSE 0

\* ---------------------------------------------------------------- clock
\* A read of Date.now(): the clock has advanced since the last read or not.
Clock == {t \in {now, now + 1} : 1 <= t /\ t <= MaxClock}

\* ---------------------------------------------------------- call stacks
Stack(t) == threads[t]
Top(t) == threads[t][Len(threads[t])]
Below(t) == threads[t][Len(threads[t]) - 1]
HasTop(t, kind, pc) ==
    /\ threads[t] # <<>>
    /\ Top(t).kind = kind
    /\ Top(t).pc = pc
ButLast(s) == SubSeq(s, 1, Len(s) - 1)
SetTop(t, f) == [threads EXCEPT ![t] = Append(ButLast(@), f)]
Push(t, f, g) == [threads EXCEPT ![t] = Append(Append(ButLast(@), f), g)]
\* The top frame returns: the frame below it, if any, becomes Resume(below).
PopTo(t, below) ==
    [threads EXCEPT ![t] = IF Len(@) = 1 THEN <<>>
                           ELSE Append(SubSeq(@, 1, Len(@) - 2), below)]

\* runNote(id) up to its first await: attempt 1 calls loadNote(id).
RunFrame(id, attempt, delays) ==
    [kind |-> "run", id |-> id, attempt |-> attempt, pc |-> "loadNote",
     note |-> LoadNote(id), statusNote |-> 0, step |-> 0,
     tool |-> "", input |-> Step("", 0, "", ""), res |-> Result("", "none", 0, ""),
     memId |-> NoId, delays |-> delays]


\* ------------------------------------------------------------- runNote
\* Backoff before the next attempt: setTimeout(resolve, 1000 * attempt).
\* (DelayFlat: a constant backoff.)
DelayFlat(attempt) == BASE_DELAY

Delay(attempt) == BASE_DELAY * attempt

\* Whether the catch block gives up: attempt === retries.
\* (ExhaustedLate: a loop with one attempt more.)
ExhaustedLate(attempt) == attempt = MAX_RETRIES + 1

Exhausted(attempt) == attempt = MAX_RETRIES

\* runNote returns to its caller (the frame below resumes in a later step).
\* (ReturnRethrow: a runNote that throws its last error at its caller.)
ReturnRethrow(t, f, outcome) ==
    /\ threads' = IF outcome = "exhausted" /\ Len(threads[t]) > 1
                  THEN PopTo(t, [Below(t) EXCEPT !.pc = "rejected"])
                  ELSE PopTo(t, Below(t))
    /\ fin' = [id |-> f.id, outcome |-> outcome, attempt |-> f.attempt,
               delays |-> f.delays]

Return(t, f, outcome) ==
    /\ threads' = PopTo(t, Below(t))
    /\ fin' = [id |-> f.id, outcome |-> outcome, attempt |-> f.attempt,
               delays |-> f.delays]

\* The catch block of runNote: log, then give up or wait for the backoff.
\* (AfterThrowStuck: an error that is not caught and ends the call chain
\* without a return.)
AfterThrowStuck(t, f) ==
    /\ threads' = SetTop(t, [f EXCEPT !.pc = "rejected"])
    /\ fin' = fin

AfterThrow(t, f) ==
    IF Exhausted(f.attempt)
    THEN Return(t, f, "exhausted")
    ELSE /\ threads' = SetTop(t, [f EXCEPT !.pc = "backoff",
                                          !.delays = Append(@, Delay(f.attempt))])
         /\ fin' = fin

\* await memory.saveNote(note) at the end of the try block.
\* (FinalSaveOther: a save that writes another Note under the id.)
FinalSaveOther(t, f) ==
    /\ SaveNote(notes[f.note].id, 1)
    /\ threads' = SetTop(t, [f EXCEPT !.pc = "saveNote"])
    /\ fin' = fin

FinalSave(t, f) ==
    /\ SaveNote(notes[f.note].id, f.note)
    /\ threads' = SetTop(t, [f EXCEPT !.pc = "saveNote"])
    /\ fin' = fin

\* tools.find(...) and tool.call(...) for one step.
\* (InvokeSkipMissing: a step whose tool is not registered is passed over
\* as if it had returned an empty result.)
InvokeSkipMissing(t, f, i, name, input) ==
    /\ NoSave
    /\ threads' = SetTop(t, [f EXCEPT !.pc = IF name \in ToolNames THEN "call" ELSE "result",
                                      !.step = i, !.tool = name, !.input = input])
    /\ fin' = fin

Invoke(t, f, i, name, input) ==
    /\ NoSave
    /\ IF name \notin ToolNames
       THEN AfterThrow(t, [f EXCEPT !.step = i])
       ELSE /\ threads' = SetTop(t, [f EXCEPT !.pc = "call", !.step = i,
                                              !.tool = name, !.input = input])
            /\ fin' = fin

\* The body of the try block from step i on: the sequential steps in order,
\* or the single tool named by content.name, then the final save.
\* (NextStepNoSave: an attempt that returns after its last step without
\* the final save.)
NextStepNoSave(t, f, i) ==
    IF i > Len(notes[f.note].logic.steps)
    THEN Return(t, f, "saved") /\ NoSave
    ELSE Invoke(t, f, i, notes[f.note].logic.steps[i].tool, notes[f.note].logic.steps[i])

\* (NextStepGated: the pause flag is tested again before every step and
\* before the final save.)
NextStepGated(t, f, i) ==
    IF Paused(LoadNote(StatusId))
    THEN Return(t, f, "gate") /\ NoSave
    ELSE IF i > Len(notes[f.note].logic.steps)
         THEN FinalSave(t, f)
         ELSE Invoke(t, f, i, notes[f.note].logic.steps[i].tool, notes[f.note].logic.steps[i])

NextStep(t, f, i) ==
    LET n == notes[f.note]
        c == n.content
    IN  IF n.logic.type = "sequential"
        THEN IF i > Len(n.logic.steps)
             THEN FinalSave(t, f)
             ELSE Invoke(t, f, i, n.logic.steps[i].tool, n.logic.steps[i])
        ELSE IF i = 1 /\ c # 0 /\ contents[c].name # ""
             THEN Invoke(t, f, i, contents[c].name,
                         Step(contents[c].name, contents[c].content, "", contents[c].desc))
             ELSE FinalSave(t, f)

\* The gate: statusNote.content.paused || note.state.status !== "running".
\* (GateNoPause: the gate without its pause test.  GatePauseOnly: the gate
\* without its status test.  GateFirstAttempt: a gate that only the first
\* attempt tests.)
GatePauseOnly(f) == Paused(f.statusNote)

GateFirstAttempt(f) ==
    /\ f.attempt = 1
    /\ (Paused(f.statusNote) \/ states[notes[f.note].state].status # "running")

GateNoPause(f) == states[notes[f.note].state].status # "running"

GateClosed(f) ==
    \/ Paused(f.statusNote)
    \/ states[notes[f.note].state].status # "running"

\* Resumes after `await memory.loadNote(id)`.
RunLoaded(t) ==
    /\ HasTop(t, "run", "loadNote")
    /\ LET f == Top(t)
       IN  IF f.note = 0
           THEN AfterThrow(t, f)
           ELSE /\ threads' = SetTop(t, [f EXCEPT !.pc = "loadStatus",
                                                  !.statusNote = LoadNote(StatusId)])
                /\ fin' = fin
    /\ NoSave
    /\ UNCHANGED <<notes, states, contents, listening, now, inputOpen,
                   seedName, plan, pausedGate>>

\* Resumes after the load of "ui-status": the gate, then the first step.
RunGate(t) ==
    /\ HasTop(t, "run", "loadStatus")
    /\ LET f == Top(t)
       IN  IF GateClosed(f)
           THEN /\ Return(t, f, "gate")
                /\ NoSave
                /\ pausedGate' =
                       IF /\ t \in TaskSlots
                          /\ Paused(f.statusNote)
                          /\ states[notes[f.note].state].status = "running"
                       THEN pausedGate \cup {f.id} ELSE pausedGate
           ELSE /\ NextStep(t, f, 1)
                /\ pausedGate' = pausedGate
    /\ UNCHANGED <<notes, states, contents, listening, now, inputOpen,
                   seedName, plan>>

\* Object.assign(note.content, result.content) for a Note returned by know.
AssignNote(c, n) ==
    [c EXCEPT !.id = n.id, !.content = n.content, !.state = n.state,
              !.context = n.context, !.logic = n.logic]

\* Object.assign(note.content, result.content) for the status Note's content.
AssignContent(c, s) ==
    [type |-> IF s.type # "" THEN s.type ELSE c.type,
     id |-> IF s.id # NoId THEN s.id ELSE c.id,
     name |-> IF s.name # "" THEN s.name ELSE c.name,
     desc |-> IF s.desc # "" THEN s.desc ELSE c.desc,
     state |-> IF s.state # 0 THEN s.state ELSE c.state,
     context |-> IF s.context # <<>> THEN s.context ELSE c.context,
     logic |-> IF s.logic # NoLogic THEN s.logic ELSE c.logic,
     content |-> IF s.content # 0 THEN s.content ELSE c.content,
     paused |-> IF s.paused # "undef" THEN s.paused ELSE c.paused]

\* note.state.status = result.status || "done"
\* (MergedStatusOk: a status outside the four of the Note type.)
MergedStatusOk(r) == "ok"

MergedStatus(r) == IF r.status = "" THEN "done" ELSE r.status

Merged(c, r) ==
    IF r.ckind = "note" THEN AssignNote(c, notes[r.cref])
    ELSE IF r.ckind = "content" THEN AssignContent(c, contents[r.cref])
    ELSE c

\* Resumes after `await tool.call(...)`: merge the result, log its memory
\* (saveMemory up to its await), or go on with the next step.
RunResult(t) ==
    /\ HasTop(t, "run", "result")
    /\ LET f == Top(t)
           n == notes[f.note]
           r == f.res
           st == [states EXCEPT ![n.state].status = MergedStatus(r)]
       IN  /\ contents' = IF n.content = 0 THEN contents
                          ELSE [contents EXCEPT ![n.content] = Merged(@, r)]
           /\ IF r.memory # ""
              THEN \E ts \in Clock :
                     LET id == Append(n.id, ts)
                     IN  /\ Len(notes) < MaxNotes
                         /\ now' = ts
                         /\ states' = Append(st, [status |-> "done"])
                         /\ notes' = Append(notes, Note(id, 0, r.memory, Len(states) + 1,
                                                        <<n.id>>, NoLogic))
                         /\ SaveNote(id, Len(notes) + 1)
                         /\ threads' = SetTop(t, [f EXCEPT !.pc = "saveMemory",
                                                          !.memId = id])
                         /\ fin' = fin
              ELSE /\ now' = now
                   /\ states' = st
                   /\ notes' = notes
                   /\ NextStep(t, f, f.step + 1)
    /\ UNCHANGED <<listening, inputOpen, seedName, plan, pausedGate>>

\* Resumes after `await saveMemory(...)`: note.memory.push(id), next step.
RunMemorySaved(t) ==
    /\ HasTop(t, "run", "saveMemory")
    /\ LET f == Top(t)
       IN  /\ notes' = [notes EXCEPT ![f.note].memory = Append(@, f.memId)]
           /\ NextStep(t, f, f.step + 1)
    /\ UNCHANGED <<states, contents, listening, now, inputOpen, seedName,
                   plan, pausedGate>>

\* Resumes after the final `await memory.saveNote(note)`: return.
RunNoteSaved(t) ==
    /\ HasTop(t, "run", "saveNote")
    /\ Return(t, Top(t), "saved")
    /\ NoSave
    /\ UNCHANGED <<notes, states, contents, listening, now, inputOpen,
                   seedName, plan, pausedGate>>

\* The awaited tool call rejected: the catch block.
RunCatch(t) ==
    /\ HasTop(t, "run", "catch")
    /\ AfterThrow(t, Top(t))
    /\ NoSave
    /\ UNCHANGED <<notes, states, contents, listening, now, inputOpen,
                   seedName, plan, pausedGate>>

\* The backoff timer fires: the next attempt starts with loadNote(id).
RunBackoff(t) ==
    /\ HasTop(t, "run", "backoff")
    /\ threads' = SetTop(t, RunFrame(Top(t).id, Top(t).attempt + 1, Top(t).delays))
    /\ NoSave
    /\ UNCHANGED <<notes, states, contents, listening, now, inputOpen,
                   seedName, plan, pausedGate, fin>>


\* ------------------------------------------------------- tools: know
\* A tool call ends: its caller, if it is a runNote attempt, resumes with
\* the result.  An external caller has no frame below.
Deliver(t, r) ==
    threads' = PopTo(t, [Below(t) EXCEPT !.pc = "result", !.res = r])

\* A tool call rejects: its caller's await throws.
\* (RejectAsResult: the caller's await returns instead.)
RejectAsResult(t) ==
    threads' = PopTo(t, [Below(t) EXCEPT !.pc = "result"])

Reject(t) ==
    threads' = PopTo(t, [Below(t) EXCEPT !.pc = "catch"])

\* KnowTool._call up to its first await: build newNote, saveNote(newNote).
\* `base` is the caller's stack.
\* (KnowCallUnsaved: a spawn that goes on without having saved the new
\* Note.)
KnowCallUnsaved(t, base, c) ==
    \E ts \in IF contents[c].id # NoId THEN {now} ELSE Clock :
        LET explicit == contents[c].id # NoId
            type == IF contents[c].type # "" THEN contents[c].type ELSE "note"
            id == IF explicit THEN contents[c].id ELSE <<type, ts>>
            fresh == contents[c].state = 0
            st == IF fresh THEN Len(states) + 1 ELSE contents[c].state
            ctx == IF contents[c].context # <<>> THEN contents[c].context
                   ELSE <<RootId>>
        IN  /\ Len(notes) < MaxNotes
            /\ now' = ts
            /\ states' = IF fresh THEN Append(states, [status |-> "running"])
                         ELSE states
            /\ notes' = Append(notes, Note(id, c, "", st, ctx, contents[c].logic))
            /\ contents' = contents
            /\ NoSave
            /\ threads' = [threads EXCEPT ![t] =
                   Append(base, [kind |-> "know", pc |-> "saveNew",
                                 new |-> Len(notes) + 1, parent |-> 0,
                                 existed |-> FALSE])]

KnowCall(t, base, c) ==
    \E ts \in IF contents[c].id # NoId THEN {now} ELSE Clock :
        LET explicit == contents[c].id # NoId
            type == IF contents[c].type # "" THEN contents[c].type ELSE "note"
            id == IF explicit THEN contents[c].id ELSE <<type, ts>>
            fresh == contents[c].state = 0
            st == IF fresh THEN Len(states) + 1 ELSE contents[c].state
            ctx == IF contents[c].context # <<>> THEN contents[c].context
                   ELSE <<RootId>>
        IN  /\ Len(notes) < MaxNotes
            /\ now' = ts
            /\ states' = IF fresh THEN Append(states, [status |-> "running"])
                         ELSE states
            /\ notes' = Append(notes, Note(id, c, "", st, ctx, contents[c].logic))
            /\ contents' = contents
            /\ SaveNote(id, Len(notes) + 1)
            /\ threads' = [threads EXCEPT ![t] =
                   Append(base, [kind |-> "know", pc |-> "saveNew",
                                 new |-> Len(notes) + 1, parent |-> 0,
                                 existed |-> FALSE])]

\* runNote's tool.call reaches KnowTool._call (content undefined: the
\* property access throws and the call rejects).
CallKnow(t) ==
    /\ HasTop(t, "run", "call")
    /\ Top(t).tool = "know"
    /\ IF Top(t).input.content = 0
       THEN /\ threads' = SetTop(t, [Top(t) EXCEPT !.pc = "catch"])
            /\ NoSave
            /\ UNCHANGED <<notes, states, contents, now>>
       ELSE KnowCall(t, Stack(t), Top(t).input.content)
    /\ UNCHANGED <<listening, inputOpen, seedName, plan, pausedGate, fin>>

\* Resumes after saveNote(newNote): parentId = context[0] || "root", and
\* loadNote(parentId), which throws when the parent is missing.
KnowSavedNew(t) ==
    /\ HasTop(t, "know", "saveNew")
    /\ LET f == Top(t)
           ctx == notes[f.new].context
           parentId == IF ctx # <<>> THEN ctx[1] ELSE RootId
       IN  IF LoadNote(parentId) = 0
           THEN Reject(t)
           ELSE threads' = SetTop(t, [f EXCEPT !.pc = "loadParent",
                                              !.parent = LoadNote(parentId)])
    /\ NoSave
    /\ UNCHANGED <<notes, states, contents, listening, now, inputOpen,
                   seedName, plan, pausedGate, fin>>

\* parentNote.graph.some(g => g.target === newNote.id)
\* (HasEdgeNever: the link step without the test.)
HasEdgeNever(graph, id) == FALSE

HasEdge(graph, id) == \E i \in 1..Len(graph) : graph[i].target = id

\* (KnowRunQueued: a spawn made by a run of the limiter waits for another
\* slot to run the child.)
KnowRunQueued(t, f) ==
    IF t \in TaskSlots
    THEN threads' = SetTop(t, [f EXCEPT !.pc = "waitSlot"])
    ELSE IF contents[notes[f.new].content].name # "know"
    THEN threads' = Push(t, [f EXCEPT !.pc = "runNote"],
                         RunFrame(notes[f.new].id, 1, <<>>))
    ELSE Deliver(t, Result("done", "note", f.new, ""))

\* `if (newNote.content.name !== "know") await runNote(newNote.id)`, and
\* when the guard skips the run, the return of the result.
KnowRun(t, f) ==
    IF contents[notes[f.new].content].name # "know"
    THEN threads' = Push(t, [f EXCEPT !.pc = "runNote"],
                         RunFrame(notes[f.new].id, 1, <<>>))
    ELSE Deliver(t, Result("done", "note", f.new, ""))

\* Resumes after loadNote(parentId): link the child unless it is linked,
\* save the parent; when it is linked already, go on to the run.
KnowLink(t) ==
    /\ HasTop(t, "know", "loadParent")
    /\ LET f == Top(t)
           id == notes[f.new].id
       IN  IF HasEdge(notes[f.parent].graph, id)
           THEN /\ KnowRun(t, [f EXCEPT !.existed = TRUE])
                /\ notes' = notes
                /\ NoSave
           ELSE /\ notes' = [notes EXCEPT ![f.parent].graph =
                                Append(@, [target |-> id, rel |-> "contains"])]
                /\ SaveNote(notes[f.parent].id, f.parent)
                /\ threads' = SetTop(t, [f EXCEPT !.pc = "saveParent"])
    /\ UNCHANGED <<states, contents, listening, now, inputOpen, seedName,
                   plan, pausedGate, fin>>

\* Resumes after saveNote(parentNote).
KnowParentSaved(t) ==
    /\ HasTop(t, "know", "saveParent")
    /\ KnowRun(t, Top(t))
    /\ NoSave
    /\ UNCHANGED <<notes, states, contents, listening, now, inputOpen,
                   seedName, plan, pausedGate, fin>>

\* Resumes after runNote(newNote.id): return {status: "done", content: newNote}.
KnowReturn(t) ==
    /\ HasTop(t, "know", "runNote")
    /\ Deliver(t, Result("done", "note", Top(t).new, ""))
    /\ NoSave
    /\ UNCHANGED <<notes, states, contents, listening, now, inputOpen,
                   seedName, plan, pausedGate, fin>>

\* ------------------------------------------------- tools: ui_control
\* UIControlTool._call up to its first await: loadNote("ui-status").
ControlCall(t, base, command) ==
    threads' = [threads EXCEPT ![t] =
        Append(base, [kind |-> "control", pc |-> "load", command |-> command,
                      statusNote |-> LoadNote(StatusId)])]

CallControl(t) ==
    /\ HasTop(t, "run", "call")
    /\ Top(t).tool = "ui_control"
    /\ ControlCall(t, Stack(t), Top(t).input.command)
    /\ NoSave
    /\ UNCHANGED <<notes, states, contents, listening, now, inputOpen,
                   seedName, plan, pausedGate, fin>>

\* `if (command === "pause") paused = true; else if (command === "resume")
\* paused = false`
\* (ApplyCommandNone: a tool that ignores its command.)
ApplyCommandNone(c, command) == c

ApplyCommand(c, command) ==
    IF command = "pause" THEN [c EXCEPT !.paused = "true"]
    ELSE IF command = "resume" THEN [c EXCEPT !.paused = "false"]
    ELSE c

\* The command applied to statusNote.content, then saveNote(statusNote).
ControlApply(t, f, ref, cs) ==
    /\ contents' = [cs EXCEPT ![notes[ref].content] = ApplyCommand(@, f.command)]
    /\ SaveNote(StatusId, ref)
    /\ threads' = SetTop(t, [f EXCEPT !.pc = "save", !.statusNote = ref])

\* Resumes after the load: create the status Note when it is missing and
\* save it; otherwise apply the command and save.
ControlLoaded(t) ==
    /\ HasTop(t, "control", "load")
    /\ LET f == Top(t)
       IN  IF f.statusNote = 0
           THEN /\ Len(notes) < MaxNotes
                /\ contents' = Append(contents,
                       [Content("", NoId, "", "", 0, <<>>, NoLogic, 0)
                           EXCEPT !.paused = "false"])
                /\ states' = Append(states, [status |-> "running"])
                /\ notes' = Append(notes, Note(StatusId, Len(contents) + 1, "",
                                               Len(states) + 1, <<RootId>>, NoLogic))
                /\ SaveNote(StatusId, Len(notes) + 1)
                /\ threads' = SetTop(t, [f EXCEPT !.pc = "saveCreated",
                                                 !.statusNote = Len(notes) + 1])
           ELSE /\ notes' = notes
                /\ states' = states
                /\ ControlApply(t, f, f.statusNote, contents)
    /\ UNCHANGED <<listening, now, inputOpen, seedName, plan,
                   pausedGate, fin>>

\* Resumes after the save of the created status Note.
ControlCreated(t) ==
    /\ HasTop(t, "control", "saveCreated")
    /\ notes' = notes
    /\ ControlApply(t, Top(t), Top(t).statusNote, contents)
    /\ UNCHANGED <<states, listening, now, inputOpen, seedName, plan, pausedGate, fin>>

\* Resumes after the last save: return {status: "running", content}.
ControlReturn(t) ==
    /\ HasTop(t, "control", "save")
    /\ Deliver(t, Result("running", "content", notes[Top(t).statusNote].content, ""))
    /\ NoSave
    /\ UNCHANGED <<notes, states, contents, listening, now, inputOpen,
                   seedName, plan, pausedGate, fin>>

\* ------------------------------------- tools: ui_render and ui_input
\* UIRenderTool._call reads the store, prints, and returns
\* {status: "running", memory: desc}.
CallRender(t) ==
    /\ HasTop(t, "run", "call")
    /\ Top(t).tool = "ui_render"
    /\ LET desc == IF Top(t).input.desc # "" THEN Top(t).input.desc ELSE "UI render"
       IN  threads' = SetTop(t, [Top(t) EXCEPT !.pc = "result",
                                    !.res = Result("running", "none", 0, desc)])
    /\ NoSave
    /\ UNCHANGED <<notes, states, contents, listening, now, inputOpen,
                   seedName, plan, pausedGate, fin>>

\* UIInputTool._call registers the line handler and returns
\* {status: "running"}.
CallInput(t) ==
    /\ HasTop(t, "run", "call")
    /\ Top(t).tool = "ui_input"
    /\ inputOpen' = TRUE
    /\ threads' = SetTop(t, [Top(t) EXCEPT !.pc = "result",
                                !.res = Result("running", "none", 0, "")])
    /\ NoSave
    /\ UNCHANGED <<notes, states, contents, listening, now, seedName, plan, pausedGate, fin>>


\* ----------------------------------------------------------------- main
\* main(): loadNote("root") throws on the empty store, so the seed is saved.
MainSeed ==
    /\ HasTop(MainT, "main", "loadRoot")
    /\ IF LoadNote(RootId) = 0
       THEN /\ SaveNote(RootId, 1)
            /\ threads' = SetTop(MainT, [Top(MainT) EXCEPT !.pc = "saveSeed"])
       ELSE /\ NoSave
            /\ threads' = Push(MainT, [Top(MainT) EXCEPT !.pc = "runNote"],
                               RunFrame(RootId, 1, <<>>))
    /\ UNCHANGED <<notes, states, contents, listening, now, inputOpen,
                   seedName, plan, pausedGate, fin>>

\* await runNote("root")
MainRun ==
    /\ HasTop(MainT, "main", "saveSeed")
    /\ threads' = Push(MainT, [Top(MainT) EXCEPT !.pc = "runNote"],
                       RunFrame(RootId, 1, <<>>))
    /\ NoSave
    /\ UNCHANGED <<notes, states, contents, listening, now, inputOpen,
                   seedName, plan, pausedGate, fin>>

\* emitter.on("update", handleEvent), after the run of root has ended.  The
\* interval started next only renders.
MainListen ==
    /\ HasTop(MainT, "main", "runNote")
    /\ listening' = TRUE
    /\ threads' = [threads EXCEPT ![MainT] = <<>>]
    /\ NoSave
    /\ UNCHANGED <<notes, states, contents, now, inputOpen, seedName, plan, pausedGate, fin>>

\* -------------------------------------------------------------- limiter
\* p-limit's activeCount.
ActiveCount == Cardinality({t \in TaskSlots : threads[t] # <<>>})

\* p-limit starts a queued run only while activeCount < concurrency.
\* (HasSlotAlways: a limiter without the test.)
HasSlotAlways == TRUE

HasSlot == ActiveCount < K

\* limit(() => runNote(id)): the oldest queued run starts; runNote runs up
\* to its first await.
Admit(t) ==
    /\ t \in TaskSlots
    /\ threads[t] = <<>>
    /\ \A u \in TaskSlots : u < t => threads[u] # <<>>
    /\ queue # <<>>
    /\ HasSlot
    /\ threads' = [threads EXCEPT ![t] = <<RunFrame(Head(queue), 1, <<>>)>>]
    /\ queue' = Tail(queue)
    /\ kv' = kv
    /\ lastSaved' = NoId
    /\ UNCHANGED <<notes, states, contents, listening, now, inputOpen,
                   seedName, plan, pausedGate, fin>>

\* ----------------------------------------------------- external actors
\* The next request of the plan arrives once the bootstrap has ended and
\* the previous call of the external actor has returned.
Arrives(op) ==
    /\ listening
    /\ threads[ExtT] = <<>>
    /\ plan # <<>>
    /\ Head(plan).op = op
    /\ plan' = Tail(plan)

\* An external actor calls the spawn capability with a request content.
ExtSpawn ==
    /\ Arrives("spawn")
    /\ KnowCall(ExtT, <<>>, Head(plan).c)
    /\ UNCHANGED <<listening, inputOpen, seedName, pausedGate, fin>>

\* An external actor calls the control capability with a command.
ExtControl ==
    /\ Arrives("control")
    /\ ControlCall(ExtT, <<>>, Head(plan).word)
    /\ NoSave
    /\ UNCHANGED <<notes, states, contents, listening, now, inputOpen,
                   seedName, pausedGate, fin>>

\* The readline handler of UIInputTool: "pause" and "resume" save a running
\* control task whose steps sit under content.logic; `know <type> "<desc>"`
\* saves a pending Note.
UILine ==
    /\ Arrives("line")
    /\ inputOpen
    /\ Len(notes) < MaxNotes
    /\ \E ts \in Clock :
         LET line == Head(plan).word
             control == line \in {"pause", "resume"}
             id == IF control THEN <<"control", ts>> ELSE <<"idea", ts>>
             c == IF control
                  THEN Content("task", NoId, "", line, 0, <<>>,
                               Sequential(<<Step("ui_control", 0, line, "Toggle execution")>>), 0)
                  ELSE Content("idea", NoId, "", "typed", 0, <<>>, NoLogic, 0)
         IN  /\ now' = ts
             /\ contents' = Append(contents, c)
             /\ states' = Append(states, [status |-> IF control THEN "running"
                                                     ELSE "pending"])
             /\ notes' = Append(notes,
                    Note(id, Len(contents) + 1, "", Len(states) + 1,
                         IF control THEN << <<"ui-prompt">> >> ELSE <<RootId>>, NoLogic))
             /\ SaveNote(id, Len(notes) + 1)
    /\ UNCHANGED <<listening, threads, inputOpen, seedName, pausedGate, fin>>

\* -------------------------------------------------------- specification
\* The state after construction, for the scenarios scs.
Start(scs) ==
    /\ \E sc \in scs : seedName = sc.seed /\ plan = sc.plan
    /\ kv = <<>>
    /\ notes = <<seed(seedName)>>
    /\ states = InitStates
    /\ contents = InitContents
    /\ listening = FALSE
    /\ queue = <<>>
    /\ threads = [t \in Threads |->
                    IF t = MainT THEN <<[kind |-> "main", pc |-> "loadRoot"]>>
                    ELSE <<>>]
    /\ now = 0
    /\ inputOpen = FALSE
    /\ pausedGate = {}
    /\ fin = [id |-> NoId, outcome |-> "", attempt |-> 0, delays |-> <<>>]
    /\ lastSaved = NoId

Init == Start(Scenarios)

Next ==
    \/ MainSeed
    \/ MainRun
    \/ MainListen
    \/ \E t \in Threads :
         \/ RunLoaded(t)
         \/ RunGate(t)
         \/ RunResult(t)
         \/ RunMemorySaved(t)
         \/ RunNoteSaved(t)
         \/ RunCatch(t)
         \/ RunBackoff(t)
         \/ CallKnow(t)
         \/ KnowSavedNew(t)
         \/ KnowLink(t)
         \/ KnowParentSaved(t)
         \/ KnowReturn(t)
         \/ CallControl(t)
         \/ ControlLoaded(t)
         \/ ControlCreated(t)
         \/ ControlReturn(t)
         \/ CallRender(t)
         \/ CallInput(t)
    \/ \E t \in TaskSlots : Admit(t)
    \/ ExtSpawn
    \/ ExtControl
    \/ UILine

Spec == Init /\ [][Next]_vars

\* ------------------------------------------------------------- fairness
\* The steps of one call stack.
ThreadStep(t) ==
    \/ RunLoaded(t) \/ RunGate(t) \/ RunResult(t) \/ RunMemorySaved(t)
    \/ RunNoteSaved(t) \/ RunCatch(t) \/ RunBackoff(t)
    \/ CallKnow(t) \/ KnowSavedNew(t) \/ KnowLink(t) \/ KnowParentSaved(t)
    \/ KnowReturn(t)
    \/ CallControl(t) \/ ControlLoaded(t) \/ ControlCreated(t) \/ ControlReturn(t)
    \/ CallRender(t) \/ CallInput(t)

\* The event loop runs every continuation that is ready and every timer
\* that is due, p-limit starts a queued run when a slot is free, and the
\* external requests of the plan do arrive.
Fairness ==
    /\ \A t \in Threads : WF_vars(ThreadStep(t))
    /\ WF_vars(MainSeed \/ MainRun \/ MainListen)
    /\ WF_vars(\E t \in TaskSlots : Admit(t))
    /\ WF_vars(ExtSpawn \/ ExtControl \/ UILine)

\* Liveness is explored for the scenarios with at most two requests, the
\* spawns of the tasks with steps (8, 11) left out.
LiveScenarios ==
    {sc \in Scenarios :
        /\ Len(sc.plan) <= 2
        /\ \A i \in 1..Len(sc.plan) : sc.plan[i].c \notin {8, 11}}

FairSpec == Start(LiveScenarios) /\ [][Next]_vars /\ Fairness


\* ================================================================ claims
\* The runNote frames of all call stacks, as <<thread, depth>>.
RunFrames ==
    {p \in Threads \X (1..4) :
        p[2] <= Len(threads[p[1]]) /\ threads[p[1]][p[2]].kind = "run"}

FrameAt(p) == threads[p[1]][p[2]]

\* An attempt whose body has resumed after its load and has not ended.
PastLoad(f) == f.pc \in {"loadStatus", "call", "result", "saveMemory", "saveNote", "catch"}

\* An attempt that passed the gate and has not reached its final save.
PastGate(f) == f.note # 0 /\ f.pc \in {"call", "result", "saveMemory"}

C2_PerIdSerialized ==
    \A p, q \in RunFrames :
        (p # q /\ PastGate(FrameAt(p)) /\ PastGate(FrameAt(q)))
            => FrameAt(p).id # FrameAt(q).id

\* C3: the gate step of a run submitted by a change notification for a
\* running Note: while the Control Note is paused the run ends there and
\* the store, the Note objects and the queue stay as they are; while it is
\* not paused the run goes on to the Note's logic.
C3_PauseGate ==
    [][\A t \in TaskSlots :
         LET f == Top(t)
             control == LoadNote(StatusId)
         IN  (/\ HasTop(t, "run", "loadStatus")
              /\ threads'[t] # threads[t]
              /\ f.statusNote = control
              /\ states[notes[f.note].state].status = "running")
             => IF Paused(control)
                THEN /\ threads'[t] = <<>>
                     /\ UNCHANGED <<kv, notes, states, contents, queue>>
                ELSE /\ threads'[t] # <<>>
                     /\ threads'[t][1].pc \in {"call", "saveNote", "backoff"}]_vars

\* A run of an id that the pause had stopped before is past the gate.
C3_Witness ==
    \E t \in TaskSlots :
        /\ threads[t] # <<>>
        /\ threads[t][1].id \in pausedGate
        /\ threads[t][1].pc \in {"call", "saveNote"}


\* The Memory Notes logged for Note id with the given text.
MemoryNotes(id, text) ==
    {i \in 1..Len(notes) :
        notes[i].content = 0 /\ notes[i].context = <<id>> /\ notes[i].text = text}

\* C4: when a runNote invocation has used up its attempts, the store's log
\* for the Note holds MAX_RETRIES Memory Notes "Error: ..." and one Memory
\* Note "max retries reached".
C4_RetryLog ==
    fin.outcome = "exhausted"
        => /\ Cardinality(MemoryNotes(fin.id, "Error")) = MAX_RETRIES
           /\ Cardinality(MemoryNotes(fin.id, "max retries reached")) = 1

\* C5 (as stated): the delays waited by an invocation that used up its
\* attempts are 1x, 2x and 3x the base interval.
C5_ThreeDelays ==
    fin.outcome = "exhausted"
        => fin.delays = <<BASE_DELAY, 2 * BASE_DELAY, 3 * BASE_DELAY>>

\* C5 (amended): the invocation makes MAX_RETRIES attempts and waits 1x and
\* 2x the base interval, one delay after each attempt but the last; every
\* delay waited so far by an attempt in progress follows the same rule.
C5_Backoff ==
    /\ fin.outcome = "exhausted"
         => /\ fin.attempt = MAX_RETRIES
            /\ fin.delays = <<BASE_DELAY, 2 * BASE_DELAY>>
    /\ \A p \in RunFrames :
         /\ Len(FrameAt(p).delays) \in {FrameAt(p).attempt - 1, FrameAt(p).attempt}
         /\ \A i \in 1..Len(FrameAt(p).delays) : FrameAt(p).delays[i] = i * BASE_DELAY

C5_Witness == fin.outcome = "exhausted" /\ Len(fin.delays) = 2

\* C6: no Note's graph holds two edges with the same target, and once the
\* spawn tool is past its link step the parent's graph holds exactly one
\* edge to the spawned id, a "contains" edge.
EdgesTo(graph, id) == {i \in 1..Len(graph) : graph[i].target = id}

C6_SpawnIdempotent ==
    /\ \A n \in 1..Len(notes) :
         \A i, j \in 1..Len(notes[n].graph) :
            notes[n].graph[i].target = notes[n].graph[j].target => i = j
    /\ \A t \in Threads : \A d \in 1..Len(threads[t]) :
         LET f == threads[t][d]
         IN  (f.kind = "know" /\ f.pc \in {"saveParent", "runNote"})
             => \E i \in 1..Len(notes[f.parent].graph) :
                   /\ EdgesTo(notes[f.parent].graph, notes[f.new].id) = {i}
                   /\ notes[f.parent].graph[i].rel = "contains"

\* The same id has been spawned a second time and found linked.
C6_Witness ==
    \E t \in Threads : \E d \in 1..Len(threads[t]) :
        /\ threads[t][d].kind = "know"
        /\ threads[t][d].pc = "runNote"
        /\ threads[t][d].existed

\* C7: no run of a Note named after the spawn tool passes the gate.
C7_SelfReferenceGuard ==
    \A p \in RunFrames :
        LET f == FrameAt(p)
        IN  (/\ f.note # 0
             /\ notes[f.note].content # 0
             /\ contents[notes[f.note].content].name = "know")
            => f.pc \in {"loadNote", "loadStatus"}

\* C8: once the run of a root with three spawn steps has ended, the store
\* holds root and three children and root's graph holds three edges.
C8_ThreeChildren ==
    (seedName = "three" /\ listening)
        => /\ Cardinality(DOMAIN kv) = 4
           /\ Len(notes[kv[RootId]].graph) = 3
           /\ \A i \in 1..3 : notes[kv[RootId]].graph[i].rel = "contains"


\* C9: every Note in the store has a status among pending, running, done
\* and failed.
C9_StatusInvariant ==
    \A id \in DOMAIN kv : states[notes[kv[id]].state].status \in Statuses

\* The store holds the Control Note, a Memory Note, a spawned Note and a
\* Note whose status a tool result has set.
C9_Witness ==
    /\ StatusId \in DOMAIN kv
    /\ <<"p">> \in DOMAIN kv
    /\ \E id \in DOMAIN kv : notes[kv[id]].content = 0
    /\ states[notes[kv[RootId]].state].status = "done"

\* C10 (as stated): every step that saves a Note submits one run of its id,
\* the saves of the bootstrap included.
C10_EverySaveNotified ==
    [][lastSaved' # NoId => queue' = Append(queue, lastSaved')]_vars

\* C10 (amended): a step that saves a Note after main has registered
\* handleEvent submits exactly one run of its id; a save made before that
\* (the seed, the initial run of root) submits none.
C10_SaveNotifiedWhenListening ==
    [][lastSaved' # NoId
         => queue' = IF listening THEN Append(queue, lastSaved') ELSE queue]_vars

\* A save made while the listener is registered has just submitted a run.
C10_Witness ==
    /\ listening
    /\ lastSaved # NoId
    /\ queue # <<>>
    /\ queue[Len(queue)] = lastSaved


\* Nothing queued, nothing in flight, no request to come.
Quiescent ==
    /\ plan = <<>>
    /\ queue = <<>>
    /\ \A t \in Threads : threads[t] = <<>>

\* C11: after the last external request the system reaches a quiescent
\* state and stays there.
C11_Quiescence == <>[]Quiescent


\* C12: a run submitted to the limiter always ends, whatever is thrown
\* inside its attempts, and so gives its slot back; every queued run is
\* started; and runNote ends by returning, at the gate, after its save or
\* after its last failed attempt, never by rejecting into its caller.
C12_ErrorContainment ==
    /\ \A t \in TaskSlots : (threads[t] # <<>>) ~> (threads[t] = <<>>)
    /\ (queue # <<>>) ~> (\E t \in TaskSlots : HasTop(t, "run", "loadNote")
                                                /\ Top(t).attempt = 1)
    /\ [][\A t \in Threads :
            (/\ threads[t] # <<>>
             /\ Top(t).kind = "run"
             /\ Len(threads'[t]) < Len(threads[t]))
            => /\ fin'.id = Top(t).id
               /\ fin'.outcome \in {"gate", "saved", "exhausted"}
               /\ threads'[t] = PopTo(t, Below(t))[t]]_vars

\* A limiter run of k has used up its attempts, its slot is free again and
\* the queue has been worked off.
C12_Witness ==
    /\ fin.outcome = "exhausted"
    /\ fin.id = <<"k">>
    /\ ActiveCount = 0
    /\ queue = <<>>


IsPrefix(a, b) == Len(a) <= Len(b) /\ SubSeq(b, 1, Len(a)) = a

\* C13: no step removes or reorders an entry of the memory list of a Note
\* in the store: the list before the step is a prefix of the list after it.
C13_MemoryAppendOnly ==
    [][\A id \in DOMAIN kv :
          IsPrefix(notes[kv[id]].memory, notes'[kv'[id]].memory)]_vars


\* Nesting depth to which a Note's value is compared.
MaxDepth == 3

\* The value of a content object: what JSON.stringify would write, the
\* nested objects followed through their references down to depth d.
RECURSIVE DeepContent(_, _)
DeepContent(c, d) ==
    IF c = 0 \/ d = 0 THEN <<>>
    ELSE LET o == contents[c]
         IN  [type |-> o.type, id |-> o.id, name |-> o.name, desc |-> o.desc,
              paused |-> o.paused, context |-> o.context,
              status |-> IF o.state = 0 THEN "" ELSE states[o.state].status,
              steps |-> [i \in 1..Len(o.logic.steps) |->
                            [tool |-> o.logic.steps[i].tool,
                             command |-> o.logic.steps[i].command,
                             desc |-> o.logic.steps[i].desc,
                             content |-> DeepContent(o.logic.steps[i].content, d - 1)]],
              content |-> DeepContent(o.content, d - 1)]

\* The value of the Note object ref.
DeepNote(ref) ==
    LET n == notes[ref]
    IN  [id |-> n.id, text |-> n.text, graph |-> n.graph, memory |-> n.memory,
         context |-> n.context, status |-> states[n.state].status,
         steps |-> [i \in 1..Len(n.logic.steps) |->
                       [tool |-> n.logic.steps[i].tool,
                        command |-> n.logic.steps[i].command,
                        desc |-> n.logic.steps[i].desc,
                        content |-> DeepContent(n.logic.steps[i].content, MaxDepth)]],
         content |-> DeepContent(n.content, MaxDepth)]

\* What load(id) returns, as a value.
Loaded(id) == DeepNote(kv[id])

\* C14: the value that load(id) returns changes only in a step that saves
\* id.
C14_ValueSemantics ==
    [][\A id \in DOMAIN kv : lastSaved' # id => Loaded(id)' = Loaded(id)]_vars


C16_NoDeletion == [][DOMAIN kv \subseteq DOMAIN kv']_vars

\* The store has grown to five ids and an id already present has just been
\* saved again.
C16_Witness ==
    /\ Cardinality(DOMAIN kv) >= 5
    /\ listening
    /\ lastSaved \in DOMAIN kv
    /\ \E t \in Threads : HasTop(t, "run", "saveNote")

\* The stored status of Note id.
StatusOf(id) == states[notes[kv[id]].state].status

\* C17: once a runNote invocation has used up its attempts, the stored
\* status of its Note is failed.
C17_FailedOnExhaustion ==
    (fin.outcome = "exhausted" /\ fin.id \in DOMAIN kv) => StatusOf(fin.id) = "failed"

\* C19: the gate step of a run of a Note whose status is not running, in
\* any call stack: runNote returns there, and the store, the Note objects
\* and the queue are as before (no tool called, nothing saved, no Memory
\* Note, no notification).
C19_StatusGate ==
    [][\A t \in Threads :
          (/\ HasTop(t, "run", "loadStatus")
           /\ threads'[t] # threads[t]
           /\ states[notes[Top(t).note].state].status # "running")
          => /\ threads'[t] = PopTo(t, Below(t))[t]
             /\ fin'.id = Top(t).id
             /\ fin'.outcome = "gate"
             /\ lastSaved' = NoId
             /\ UNCHANGED <<kv, notes, states, contents, queue>>]_vars

\* A run of a pending or done Note has returned at the gate while the
\* system was not paused.
C19_Witness ==
    /\ fin.outcome = "gate"
    /\ fin.id \in DOMAIN kv
    /\ StatusOf(fin.id) \in {"pending", "done"}
    /\ ~Paused(LoadNote(StatusId))


\* A Note object built by the spawn tool: its content is the object the
\* caller passed, one of the literals.
Spawned(n) == n.content \in 2..Len(InitContents)

\* parentId = newNote.context[0] || "root"
ParentId(n) == IF n.context # <<>> THEN n.context[1] ELSE RootId

\* C18: whenever an attempt of a spawned Note is past the gate, the parent
\* is in the store and its graph holds an edge to the Note.
C18_LinkedBeforeRun ==
    \A p \in RunFrames :
        (/\ FrameAt(p).note # 0
         /\ FrameAt(p).pc \notin {"loadNote", "loadStatus"}
         /\ Spawned(notes[FrameAt(p).note]))
        => /\ ParentId(notes[FrameAt(p).note]) \in DOMAIN kv
           /\ HasEdge(notes[kv[ParentId(notes[FrameAt(p).note])]].graph, FrameAt(p).id)

\* C20: the step of the Note a, whose tool returns status done, is invoked
\* once however many runs of a are started: the heap holds at most one Note
\* object built from the step's input.
C20_StepInvokedOnce ==
    \A i, j \in 1..Len(notes) :
        (notes[i].content = 9 /\ notes[j].content = 9) => i = j


\* C21: every attempt after the first starts by loading the Note from the
\* store again and then loads the Control Note again; when at its gate the
\* Control Note is paused or the Note's status is not running, runNote
\* returns in this attempt, and the store, the Note objects and the queue
\* are as before (no tool called, no later attempt).
C21_RetryRereadsGate ==
    [][\A t \in Threads :
          LET f == Top(t)
              g == threads'[t][Len(threads'[t])]
          IN  /\ (HasTop(t, "run", "backoff") /\ threads'[t] # threads[t])
                 => /\ Len(threads'[t]) = Len(threads[t])
                    /\ g.pc = "loadNote"
                    /\ g.attempt = f.attempt + 1
                    /\ g.note = LoadNote(f.id)
              /\ (/\ HasTop(t, "run", "loadNote")
                  /\ threads'[t] # threads[t]
                  /\ f.attempt > 1
                  /\ f.note # 0)
                 => /\ g.pc = "loadStatus"
                    /\ g.statusNote = LoadNote(StatusId)
              /\ (/\ HasTop(t, "run", "loadStatus")
                  /\ threads'[t] # threads[t]
                  /\ f.attempt > 1
                  /\ \/ Paused(f.statusNote)
                     \/ states[notes[f.note].state].status # "running")
                 => /\ threads'[t] = PopTo(t, Below(t))[t]
                    /\ fin'.id = f.id
                    /\ fin'.outcome = "gate"
                    /\ fin'.attempt = f.attempt
                    /\ UNCHANGED <<kv, notes, states, contents, queue>>]_vars

\* A run whose first attempt failed has returned at the gate of a later
\* attempt, the pause having arrived during the backoff.
C21_Witness ==
    /\ fin.outcome = "gate"
    /\ fin.attempt > 1
    /\ Paused(LoadNote(StatusId))


\* C22: within one attempt the step counter of a run only moves from i to
\* i + 1, and only when step i has returned (the first step after the
\* gate); a step whose tool is not registered is not called and ends the
\* attempt; after a throw the attempt is over: the run waits for its backoff
\* or returns, its step counter where it was, and the next attempt starts
\* again before the first step.
C22_SequentialSteps ==
    [][\A t \in Threads :
          LET f == Top(t)
              g == threads'[t][Len(threads'[t])]
              steps == notes[g.note].logic.steps
          IN  (/\ threads[t] # <<>>
               /\ f.kind = "run"
               /\ threads'[t] # threads[t]
               /\ Len(threads'[t]) = Len(threads[t]))
              => /\ (g.attempt = f.attempt /\ g.step # f.step)
                    => /\ g.step = f.step + 1
                       /\ IF f.step = 0 THEN f.pc = "loadStatus"
                          ELSE f.pc \in {"result", "saveMemory"}
                       /\ (/\ notes[g.note].logic.type = "sequential"
                           /\ steps[g.step].tool \notin ToolNames)
                          => g.pc = "backoff"
                 /\ f.pc = "catch" => (g.pc = "backoff" /\ g.step = f.step)
                 /\ f.pc = "backoff" => (g.attempt = f.attempt + 1 /\ g.step = 0)]_vars

\* The first step of the seed has returned, its second step names the
\* unregistered tool "spawn", and the attempt has ended with the third step
\* still to come.
C22_Witness ==
    \E t \in Threads :
        /\ HasTop(t, "run", "backoff")
        /\ Top(t).step = 2
        /\ Len(notes[Top(t).note].logic.steps) = 3


\* C23: while a run of a Note is in the catch block or waits for its
\* backoff (its attempt ended by a throw), or after the Note's run has used
\* up its attempts, the stored status of the Note is not done.
C23_DoneOnlyAfterSuccess ==
    /\ \A p \in RunFrames :
          (FrameAt(p).pc \in {"catch", "backoff"} /\ FrameAt(p).id \in DOMAIN kv)
              => StatusOf(FrameAt(p).id) # "done"
    /\ (fin.outcome = "exhausted" /\ fin.id \in DOMAIN kv) => StatusOf(fin.id) # "done"


\* C24: a step of an attempt that is past the gate, taken while the Control
\* Note is paused: a pending tool call is made; after a returned step the
\* attempt goes on to the next step (or to the backoff when that step
\* throws), and after the last step it saves the Note under its id; runNote
\* does not return at a gate.
C24_PauseDoesNotAbort ==
    [][\A t \in Threads :
          LET f == Top(t)
              n == Len(threads[t])
              g == threads'[t][n]
              steps == notes[f.note].logic.steps
          IN  (/\ threads[t] # <<>>
               /\ f.kind = "run"
               /\ PastGate(f)
               /\ threads'[t] # threads[t]
               /\ Paused(LoadNote(StatusId)))
              => IF f.pc = "call"
                 THEN /\ Len(threads'[t]) >= n
                      /\ g.pc \in {"call", "result", "catch"}
                 ELSE IF f.step < Len(steps)
                 THEN \/ /\ Len(threads'[t]) = n
                         /\ g.step = f.step + 1
                         /\ g.pc \in {"call", "backoff"}
                      \/ /\ Len(threads'[t]) = n
                         /\ g.step = f.step
                         /\ g.pc = "saveMemory"
                      \/ /\ Len(threads'[t]) < n
                         /\ fin'.outcome = "exhausted"
                 ELSE /\ Len(threads'[t]) = n
                      /\ \/ /\ g.pc = "saveNote"
                            /\ lastSaved' = f.id
                            /\ kv'[f.id] = f.note
                         \/ /\ f.pc = "result"
                            /\ g.pc = "saveMemory"]_vars

\* The attempt of the Note c passed the gate, its step paused the system,
\* and the attempt has saved c all the same.
C24_Witness ==
    \E t \in Threads :
        /\ HasTop(t, "run", "saveNote")
        /\ Top(t).step >= 1
        /\ lastSaved = Top(t).id
        /\ Paused(LoadNote(StatusId))


\* C25: at most K limiter runs are in flight; a save made while K runs are
\* in flight adds its run at the end of the queue; the queue loses a run
\* only at its head, when that run is started in a free slot; and under
\* fair scheduling a waiting run always leads to an admission and every
\* admitted run ends, so every queued run is started and run.
C25_BoundedAdmissionLive ==
    /\ [](ActiveCount <= K)
    /\ [][(listening /\ lastSaved' # NoId /\ ActiveCount = K)
             => queue' = Append(queue, lastSaved')]_vars
    /\ [][\/ IsPrefix(queue, queue')
          \/ /\ queue' = Tail(queue)
             /\ ActiveCount < K
             /\ \E t \in TaskSlots :
                   /\ threads[t] = <<>>
                   /\ threads'[t] = <<RunFrame(Head(queue), 1, <<>>)>>]_vars
    /\ (queue # <<>>) ~> (\E t \in TaskSlots : HasTop(t, "run", "loadNote")
                                                /\ Top(t).attempt = 1)
    /\ \A t \in TaskSlots : (threads[t] # <<>>) ~> (threads[t] = <<>>)

\* K runs are in flight and a save has just put one more run in the queue.
C25_Witness ==
    /\ listening
    /\ ActiveCount = K
    /\ lastSaved # NoId
    /\ queue # <<>>
    /\ queue[Len(queue)] = lastSaved


\* C26: a stored Note whose status is pending is stored with status pending
\* after every step, except a step in which a spawn called from outside
\* writes a Note under its id.
C26_NoAutomaticActivation ==
    [][\A id \in DOMAIN kv :
          StatusOf(id) = "pending"
          => \/ StatusOf(id)' = "pending"
             \/ /\ threads[ExtT] = <<>>
                /\ threads'[ExtT] # <<>>
                /\ lastSaved' = id]_vars

\* A pending Note that has a step was run, the run returned at the gate,
\* and the Note is still pending.
C26_Witness ==
    /\ fin.outcome = "gate"
    /\ fin.id \in DOMAIN kv
    /\ StatusOf(fin.id) = "pending"
    /\ notes[kv[fin.id]].logic.steps # <<>>


\* C27: whenever a spawn has saved its new Note and is about to load the
\* parent, the parent id (context[0], or "root") is the id of a stored Note.
C27_ParentResolves ==
    \A t \in Threads :
        HasTop(t, "know", "saveNew") => ParentId(notes[Top(t).new]) \in DOMAIN kv


\* The paused field of the content of the Note object ref.
PausedField(ref) == contents[notes[ref].content].paused

\* C28: the steps of a call of the control tool.  When its load found no
\* Control Note, the call stores a new one under "ui-status" with paused
\* false.  Then it stores the Control Note it holds with paused true for
\* the command pause, false for resume, and as it was in the store before
\* for any other command.  Each of the two saves emits a change for
\* "ui-status", which submits a run when the listener is registered.  The
\* return leaves the store and the contents as they are.
C28_ControlCapability ==
    [][\A t \in Threads :
          LET f == Top(t)
              g == threads'[t][Len(threads[t])]
              emitted == /\ lastSaved' = StatusId
                         /\ queue' = IF listening THEN Append(queue, StatusId) ELSE queue
          IN  (threads[t] # <<>> /\ f.kind = "control" /\ threads'[t] # threads[t])
              => IF f.pc = "load" /\ f.statusNote = 0
                 THEN /\ g.pc = "saveCreated"
                      /\ kv'[StatusId] = g.statusNote
                      /\ PausedField(kv[StatusId])' = "false"
                      /\ emitted
                 ELSE IF f.pc \in {"load", "saveCreated"}
                 THEN /\ g.pc = "save"
                      /\ kv'[StatusId] = f.statusNote
                      /\ PausedField(kv[StatusId])' =
                            IF f.command = "pause" THEN "true"
                            ELSE IF f.command = "resume" THEN "false"
                            ELSE PausedField(kv[StatusId])
                      /\ emitted
                 ELSE /\ f.pc = "save"
                      /\ UNCHANGED <<kv, contents, queue>>]_vars

\* A pause command has been applied and saved while the listener is
\* registered: the stored Control Note is paused and a run of "ui-status"
\* has been submitted.
C28_Witness ==
    \E t \in Threads :
        /\ HasTop(t, "control", "save")
        /\ Top(t).command = "pause"
        /\ Paused(LoadNote(StatusId))
        /\ listening
        /\ lastSaved = StatusId
        /\ queue # <<>>
        /\ queue[Len(queue)] = StatusId


\* C29: a Memory Note in the store (a Note built by saveMemory: its content
\* is the logged entry) is stored under its id after every step with the
\* same entry, the same context and status done.
C29_MemoryImmutable ==
    [][\A id \in DOMAIN kv :
          (notes[kv[id]].content = 0 /\ notes[kv[id]].text # "")
          => /\ id \in DOMAIN kv'
             /\ notes'[kv'[id]].content = 0
             /\ notes'[kv'[id]].text = notes[kv[id]].text
             /\ notes'[kv'[id]].context = notes[kv[id]].context
             /\ StatusOf(id)' = "done"]_vars


\* C30: a step in which the spawn tool builds a Note for a request without
\* an explicit id stores it under an id the store did not hold before.
C30_FreshIds ==
    [][\A t \in Threads :
          LET g == threads'[t][Len(threads'[t])]
          IN  (/\ threads'[t] # threads[t]
               /\ threads'[t] # <<>>
               /\ g.kind = "know"
               /\ g.pc = "saveNew"
               /\ contents[notes'[g.new].content].id = NoId)
              => notes'[g.new].id \notin DOMAIN kv]_vars


\* A call of the control tool made from outside runNote is in progress in
\* the call stack of the external caller.
OutsideControl ==
    /\ threads[ExtT] # <<>>
    /\ threads[ExtT][1].kind = "control"

\* C31 (as stated): a step after which the stored Control Note is no longer
\* paused is a step of a control call made from outside runNote.
C31_ResumeOnlyFromOutside ==
    [][(Paused(LoadNote(StatusId)) /\ ~Paused(LoadNote(StatusId))')
         => (OutsideControl /\ threads'[ExtT] # threads[ExtT])]_vars


\* No call of the spawn tool is in progress in any call stack.
NoSpawnInProgress ==
    \A t \in Threads : \A d \in 1..Len(threads[t]) : threads[t][d].kind # "know"

\* C32: whenever no spawn is in progress, the parent of every stored Note
\* that a spawn built is in the store and its graph holds an edge to the
\* Note.
C32_ChildrenStayLinked ==
    NoSpawnInProgress
    => \A id \in DOMAIN kv :
          Spawned(notes[kv[id]])
          => /\ ParentId(notes[kv[id]]) \in DOMAIN kv
             /\ HasEdge(notes[kv[ParentId(notes[kv[id]])]].graph, id)


\* The number of tool calls the try block of an attempt of the Note object
\* ref makes: its sequential steps, or one for a Note named after a tool.
StepCount(ref) ==
    IF notes[ref].logic.type = "sequential" THEN Len(notes[ref].logic.steps)
    ELSE IF notes[ref].content # 0 /\ contents[notes[ref].content].name # "" THEN 1
    ELSE 0

\* The attempt f is at the end of its try block: the gate is open and there
\* is nothing to call, or its last call has returned and its result has been
\* merged and logged.
AllStepsReturned(f) ==
    \/ f.pc = "loadStatus" /\ ~GateClosed(f) /\ StepCount(f.note) = 0
    \/ f.pc = "result" /\ f.res.memory = "" /\ f.step >= StepCount(f.note)
    \/ f.pc = "saveMemory" /\ f.step >= StepCount(f.note)

C34_AttemptCount ==
    /\ [](\A p \in RunFrames :
            /\ FrameAt(p).attempt \in 1..MAX_RETRIES
            /\ Len(FrameAt(p).delays) =
                  IF FrameAt(p).pc = "backoff" THEN FrameAt(p).attempt
                  ELSE FrameAt(p).attempt - 1)
    /\ [][\A t \in Threads :
            LET f == Top(t)
                n == Len(threads[t])
            IN  (threads[t] # <<>> /\ f.kind = "run" /\ threads'[t] # threads[t])
                => IF Len(threads'[t]) < n
                   THEN /\ threads'[t] = PopTo(t, Below(t))[t]
                        /\ fin'.attempt = f.attempt
                        /\ fin'.outcome = "exhausted" => f.attempt = MAX_RETRIES
                        /\ fin'.outcome \in {"gate", "saved"} => f.pc \in {"loadStatus", "saveNote"}
                   ELSE /\ threads'[t][n].attempt # f.attempt
                           => /\ f.pc = "backoff"
                              /\ threads'[t][n].attempt = f.attempt + 1
                        /\ (threads'[t][n].pc = "backoff" /\ f.pc # "backoff")
                           => /\ f.attempt < MAX_RETRIES
                              /\ f.pc \notin {"saveNote"}]_vars

\* The third attempt of an invocation has thrown.
C34_Witness ==
    \E p \in RunFrames :
        /\ FrameAt(p).attempt = MAX_RETRIES
        /\ FrameAt(p).pc = "catch"


\* C35: while the run that a spawn call started is in progress, the spawn
\* call waits at its `await runNote` and its caller waits at its step; when
\* that run returns, whatever its outcome, the spawn call is where it
\* waited; its next step returns status done and the new Note to the
\* invoking attempt, which goes on in the same attempt with the result.
C35_ChildFailureIsolated ==
    /\ [](\A t \in Threads : \A d \in 1..Len(threads[t]) :
            d < Len(threads[t])
            => \/ threads[t][d].kind = "run" /\ threads[t][d].pc = "call"
               \/ threads[t][d].kind = "know" /\ threads[t][d].pc = "runNote"
               \/ threads[t][d].kind = "main")
    /\ [][\A t \in Threads :
            LET f == Top(t)
                n == Len(threads[t])
            IN  /\ (/\ n > 1
                    /\ f.kind = "run"
                    /\ Below(t).kind = "know"
                    /\ Len(threads'[t]) < n)
                   => threads'[t] = ButLast(threads[t])
                /\ (HasTop(t, "know", "runNote") /\ threads'[t] # threads[t])
                   => IF n = 1 THEN threads'[t] = <<>>
                      ELSE /\ Len(threads'[t]) = n - 1
                           /\ threads'[t][n - 1] =
                                 [Below(t) EXCEPT !.pc = "result",
                                                  !.res = Result("done", "note", f.new, "")]]_vars

\* The run of the spawned Note f has used up its attempts, and the attempt
\* of its parent has received the result of the spawn step.
C35_Witness ==
    /\ fin.outcome = "exhausted"
    /\ fin.id = <<"f">>
    /\ \E t \in Threads :
          /\ HasTop(t, "run", "result")
          /\ Top(t).attempt = 1
          /\ Top(t).res.status = "done"
          /\ Top(t).res.cref # 0
          /\ notes[Top(t).res.cref].id = <<"f">>


\* C36: every run that holds a slot of the limiter can take a step: it
\* never waits for a slot, so K runs in flight with more runs queued cannot
\* block each other.
C36_NoPoolDeadlock ==
    \A t \in TaskSlots : threads[t] # <<>> => ENABLED ThreadStep(t)

\* All K slots are held, a run waits in the queue, and one of the runs in
\* flight is inside a spawn step that runs the child in the same slot.
C36_Witness ==
    /\ ActiveCount = K
    /\ queue # <<>>
    /\ \E t \in TaskSlots :
          /\ Len(threads[t]) >= 3
          /\ threads[t][2].kind = "know"
          /\ threads[t][3].kind = "run"


\* C37: a spawn call saves its new Note in its first step (which emits the
\* change).  When the parent is not in the store at the step after that,
\* the call ends there: the invoking attempt, if there is one, is in its
\* catch block, the store is as before, so the new Note stays in it, and no
\* graph has changed.  The attempt after the backoff starts again before
\* step 1.
C37_SpawnNotAtomic ==
    [][\A t \in Threads :
          LET f == Top(t)
              n == Len(threads[t])
              g == threads'[t][Len(threads'[t])]
          IN  /\ (/\ threads'[t] # threads[t]
                  /\ threads'[t] # <<>>
                  /\ g.kind = "know"
                  /\ g.pc = "saveNew")
                 => /\ lastSaved' = notes'[g.new].id
                    /\ kv'[lastSaved'] = g.new
                    /\ queue' = IF listening THEN Append(queue, lastSaved') ELSE queue
              /\ (/\ HasTop(t, "know", "saveNew")
                  /\ threads'[t] # threads[t]
                  /\ ParentId(notes[f.new]) \notin DOMAIN kv)
                 => /\ Len(threads'[t]) = n - 1
                    /\ n > 1 => threads'[t][n - 1] = [Below(t) EXCEPT !.pc = "catch"]
                    /\ notes[f.new].id \in DOMAIN kv'
                    /\ UNCHANGED <<kv, notes, queue>>
              /\ (HasTop(t, "run", "backoff") /\ threads'[t] # threads[t])
                 => (g.pc = "loadNote" /\ g.step = 0)]_vars

\* The second attempt of the seed has called the spawn of o again: o is in
\* the store from the first attempt, its parent zz is not.
C37_Witness ==
    \E t \in Threads :
        /\ HasTop(t, "know", "saveNew")
        /\ Len(threads[t]) > 1
        /\ Below(t).attempt = 2
        /\ Below(t).step = 1
        /\ notes[Top(t).new].id = <<"o">>
        /\ <<"o">> \in DOMAIN kv
        /\ ParentId(notes[Top(t).new]) \notin DOMAIN kv


\* C38: every id in the memory list of a stored Note is the id of a stored
\* Note whose status is done and whose context starts with the id of the
\* Note that lists it.
C38_MemoryResolves ==
    \A id \in DOMAIN kv :
        \A i \in 1..Len(notes[kv[id]].memory) :
            LET m == notes[kv[id]].memory[i]
            IN  /\ m \in DOMAIN kv
                /\ StatusOf(m) = "done"
                /\ notes[kv[m]].context # <<>>
                /\ notes[kv[m]].context[1] = id

\* A stored Note lists two Memory Notes with different ids.
C38_Witness ==
    \E id \in DOMAIN kv :
        /\ Len(notes[kv[id]].memory) >= 2
        /\ notes[kv[id]].memory[1] # notes[kv[id]].memory[2]
        /\ notes[kv[id]].memory[2] \in DOMAIN kv


\* C39: the target of every edge in the graph of every Note object is the
\* id of a stored Note.
C39_EdgesResolve ==
    \A n \in 1..Len(notes) :
        \A i \in 1..Len(notes[n].graph) : notes[n].graph[i].target \in DOMAIN kv

\* A spawn has just appended the edge to its new Note, which is in the
\* store, and is saving the parent.
C39_Witness ==
    \E t \in Threads :
        /\ HasTop(t, "know", "saveParent")
        /\ HasEdge(notes[Top(t).parent].graph, notes[Top(t).new].id)
        /\ LoadNote(notes[Top(t).new].id) = Top(t).new

=============================================================================
